---- MODULE Spec2Model ----
(***************************************************************************)
(* CO2 tracker (src/app.py): the background refresh of the dashboard.      *)
(* The interactive (Tk main) thread runs refresh_async, _poll_queue and    *)
(* the user's edits of the two configuration variables; each accepted      *)
(* refresh starts one _refresh_worker thread, which fetches two CSV files  *)
(* and puts one message on the queue self._q.                              *)
(*                                                                         *)
(* Numbers: every float of the program is held as a fixed-point integer in *)
(* hundredths (420.70 ppm is 42070), so the quotients and the roundings of *)
(* the code are computed, on inputs where they are exact in hundredths.    *)
(* Text: the start-year entry is a sequence of one-character strings; a    *)
(* CSV field is a record [k, c]: its lexical kind and, for a number, its   *)
(* value in hundredths.                                                    *)
(* The texts of the widgets are written in ASCII ("Refreshing..." for the   *)
(* status with an ellipsis, "CO2" for the subscript form); of the status    *)
(* "Updated <timestamp>" the year of the timestamp is kept.                 *)
(***************************************************************************)
EXTENDS Integers, Sequences, FiniteSets, TLC

(* ------------------------------ bounds -------------------------------- *)

\* The year datetime.now().year returns when the application is constructed.
ClockStart == 2026

\* How many times the calendar year may roll over while the application runs.
MaxNewYears == 1

\* How many times refresh_async is called after construction.
MaxCalls == 2

(* ----------------------- constants of the program --------------------- *)

PREINDUSTRIAL_PPM == 28000

\* 7.80432 GtCO2 per ppm, in units of 10^-5.
PPM_TO_GTCO2_IN_ATMOSPHERE == 780432

\* The dictionary BUDGETS_GTCO2 in insertion order: <<label, GtCO2>>.
BUDGETS_GTCO2 ==
    << <<"1.5C budget (50% chance) ~580 GtCO2", 58000>>,
       <<"1.5C budget (66% chance) ~420 GtCO2", 42000>> >>

BudgetKeys == { BUDGETS_GTCO2[i][1] : i \in DOMAIN BUDGETS_GTCO2 }

\* Variant of BudgetGet: a label that is no key gets the last entry.
BudgetGet_last_entry(label, default) ==
    IF label \in BudgetKeys
    THEN BUDGETS_GTCO2[CHOOSE i \in DOMAIN BUDGETS_GTCO2 :
                           BUDGETS_GTCO2[i][1] = label][2]
    ELSE BUDGETS_GTCO2[Len(BUDGETS_GTCO2)][2]

\* dict.get(label, default)
BudgetGet(label, default) ==
    IF label \in BudgetKeys
    THEN BUDGETS_GTCO2[CHOOSE i \in DOMAIN BUDGETS_GTCO2 :
                           BUDGETS_GTCO2[i][1] = label][2]
    ELSE default

\* from_=1990 of the spinbox and the lower clamp of the start year.
MinStartYear == 1990

\* The fallback of a start-year entry that is no integer.
DefaultStartYear == 2020

(* ------------------------- text and CSV fields ------------------------ *)

Digits == <<"0", "1", "2", "3", "4", "5", "6", "7", "8", "9">>

IsDigit(ch) == \E i \in DOMAIN Digits : Digits[i] = ch

DigitVal(ch) == (CHOOSE i \in DOMAIN Digits : Digits[i] = ch) - 1

\* str.strip() on a sequence of characters (blanks only).
RECURSIVE LStrip(_)
LStrip(s) == IF s # <<>> /\ Head(s) = " " THEN LStrip(Tail(s)) ELSE s

RECURSIVE RStrip(_)
RStrip(s) ==
    IF s # <<>> /\ s[Len(s)] = " " THEN RStrip(SubSeq(s, 1, Len(s) - 1)) ELSE s

Strip(s) == RStrip(LStrip(s))

RECURSIVE DigitsValue(_)
DigitsValue(s) ==
    IF s = <<>> THEN 0
    ELSE 10 * DigitsValue(SubSeq(s, 1, Len(s) - 1)) + DigitVal(s[Len(s)])

\* int(text): [ok, v]. An optional sign, then one or more decimal digits,
\* blanks around them allowed; anything else raises ValueError (ok = FALSE).
IntOfText(text) ==
    LET s == Strip(text)
        signed == s # <<>> /\ Head(s) \in {"+", "-"}
        body == IF signed THEN Tail(s) ELSE s
        good == body # <<>> /\ \A i \in DOMAIN body : IsDigit(body[i])
    IN  IF ~good THEN [ok |-> FALSE, v |-> 0]
        ELSE [ok |-> TRUE,
              v |-> IF signed /\ Head(s) = "-" THEN 0 - DigitsValue(body)
                    ELSE DigitsValue(body)]

\* CSV fields. I(n): an integer literal; D(c): a decimal literal worth c
\* hundredths; T: text that is no number; E: the empty string; None: the
\* column is absent from the row (DictReader's restval).
I(n) == [k |-> "int", c |-> n * 100]
D(c) == [k |-> "dec", c |-> c]
T == [k |-> "text", c |-> 0]
E == [k |-> "empty", c |-> 0]
None == [k |-> "none", c |-> 0]

\* int(field) succeeds on an integer literal only.
IntOk(f) == f.k = "int"
IntOf(f) == f.c \div 100

\* float(field) succeeds on an integer or a decimal literal; in hundredths.
FloatOk(f) == f.k \in {"int", "dec"}
FloatOf(f) == f.c

\* Rounding of x/d to the nearest integer (format's rounding of a float).
RoundDiv(x, d) == (2 * x + d) \div (2 * d)

(* ------------------------------ fetchers ------------------------------ *)

\* A response of _http_get_text: [ok, lines]. ok = FALSE: request raised
\* (transport failure, timeout or a non-success status).
NetFail == [ok |-> FALSE, lines |-> <<>>]
Body(lines) == [ok |-> TRUE, lines |-> lines]

\* A line of the NOAA file after strip(): blank, a "#" comment, or data split
\* at the commas into stripped parts.
Blank == [kind |-> "blank", parts |-> <<>>]
Comment == [kind |-> "comment", parts |-> <<>>]
Data(parts) == [kind |-> "data", parts |-> parts]

IsLeap(y) == (y % 4 = 0 /\ y % 100 # 0) \/ y % 400 = 0

DaysIn(y, m) ==
    IF m = 2 THEN (IF IsLeap(y) THEN 29 ELSE 28)
    ELSE IF m \in {4, 6, 9, 11} THEN 30 ELSE 31

\* datetime(year, month, day) raises ValueError outside these ranges.
ValidDate(y, m, d) ==
    /\ y >= 1 /\ y <= 9999
    /\ m >= 1 /\ m <= 12
    /\ d >= 1 /\ d <= DaysIn(y, m)

\* The rows of the loop that reach line 70: not skipped by any `continue`.
NoaaKept(line) ==
    /\ line.kind = "data"
    /\ Len(line.parts) >= 5
    /\ IntOk(line.parts[1]) /\ IntOk(line.parts[2]) /\ IntOk(line.parts[3])
    /\ FloatOk(line.parts[5])
    /\ FloatOf(line.parts[5]) > 0

NoaaDate(line) ==
    <<IntOf(line.parts[1]), IntOf(line.parts[2]), IntOf(line.parts[3])>>

\* datetime.__lt__ on <<year, month, day>>.
DateLess(a, b) ==
    \/ a[1] < b[1]
    \/ a[1] = b[1] /\ a[2] < b[2]
    \/ a[1] = b[1] /\ a[2] = b[2] /\ a[3] < b[3]

\* max(rows, key=date): the first row no other row exceeds.
RECURSIVE MaxByDate(_)
MaxByDate(rows) ==
    IF Len(rows) = 1 THEN rows[1]
    ELSE LET best == MaxByDate(SubSeq(rows, 1, Len(rows) - 1))
             last == rows[Len(rows)]
         IN  IF DateLess(best.date, last.date) THEN last ELSE best

NoSnap == [date |-> <<0, 0, 0>>, ppm |-> 0]

Raised(what) == [ok |-> FALSE, snap |-> NoSnap, series |-> <<>>, err |-> what]

\* fetch_latest_noaa_daily_ppm on a response: a Co2Snapshot, or the
\* exception that leaves the function.
fetch_latest_noaa_daily_ppm(resp) ==
    IF ~resp.ok THEN Raised("RequestException")
    ELSE
    LET kept == SelectSeq(resp.lines, NoaaKept)
        rows == [i \in DOMAIN kept |->
                    [date |-> NoaaDate(kept[i]), ppm |-> FloatOf(kept[i].parts[5])]]
    IN  IF \E i \in DOMAIN rows :
               ~ValidDate(rows[i].date[1], rows[i].date[2], rows[i].date[3])
        THEN Raised("ValueError")
        ELSE IF rows = <<>> THEN Raised("RuntimeError")
        ELSE [ok |-> TRUE, snap |-> MaxByDate(rows), series |-> <<>>, err |-> ""]

\* A row of the OWID file as csv.DictReader yields it.
Row(country, year, co2) == [country |-> country, year |-> year, co2 |-> co2]

\* list.sort(key=year): stable insertion of x after its equals.
RECURSIVE InsertByYear(_, _)
InsertByYear(sorted, x) ==
    IF sorted = <<>> THEN <<x>>
    ELSE IF sorted[Len(sorted)][1] <= x[1] THEN Append(sorted, x)
    ELSE Append(InsertByYear(SubSeq(sorted, 1, Len(sorted) - 1), x),
                sorted[Len(sorted)])

\* Variant of SortByYear: the rows stay in the order of the file.
SortByYear_file_order(out) == out

RECURSIVE SortByYear(_)
SortByYear(out) ==
    IF out = <<>> THEN <<>>
    ELSE InsertByYear(SortByYear(SubSeq(out, 1, Len(out) - 1)), out[Len(out)])

\* Variant of fetch_world_emissions_owid: a row whose year or co2 cannot be
\* converted raises out of the function.
fetch_world_emissions_owid_aborts(resp, start_year, end_year) ==
    IF ~resp.ok THEN Raised("RequestException")
    ELSE IF \E i \in DOMAIN resp.lines :
               /\ resp.lines[i].country = "World"
               /\ ~IntOk(resp.lines[i].year) \/ ~FloatOk(resp.lines[i].co2)
    THEN Raised("ValueError")
    ELSE
    LET Kept(row) ==
            /\ row.country = "World"
            /\ IntOf(row.year) >= start_year /\ IntOf(row.year) <= end_year
        kept == SelectSeq(resp.lines, Kept)
        out == [i \in DOMAIN kept |->
                   <<IntOf(kept[i].year), FloatOf(kept[i].co2) \div 1000>>]
    IN  [ok |-> TRUE, snap |-> NoSnap, series |-> SortByYear(out), err |-> ""]

\* fetch_world_emissions_owid: <<year, GtCO2>> of the World rows in range.
fetch_world_emissions_owid(resp, start_year, end_year) ==
    IF ~resp.ok THEN Raised("RequestException")
    ELSE
    LET Kept(row) ==
            /\ row.country = "World"
            /\ IntOk(row.year)
            /\ IntOf(row.year) >= start_year /\ IntOf(row.year) <= end_year
            /\ row.co2.k \notin {"none", "empty"}
            /\ FloatOk(row.co2)
        kept == SelectSeq(resp.lines, Kept)
        out == [i \in DOMAIN kept |->
                   <<IntOf(kept[i].year), FloatOf(kept[i].co2) \div 1000>>]
    IN  [ok |-> TRUE, snap |-> NoSnap, series |-> SortByYear(out), err |-> ""]

\* The responses the two servers may give.
NoaaResponses ==
    { NetFail,
      Body(<< Comment,
              Data(<<I(2026), I(1), I(4), D(202601), D(42850)>>),
              Blank,
              Data(<<I(2026), I(1), I(5), D(202601), D(-99999)>>),
              Data(<<I(2026), I(1), I(3), D(202600), D(42790)>>),
              Data(<<I(2026), T, I(6), D(202601), D(43000)>>) >>),
      Body(<< Data(<<I(2026), I(3), I(9), D(202618), I(431)>>),
              Data(<<I(2026), I(3)>>) >>),
      Body(<< Comment, Data(<<I(2026), I(2), I(1), D(202608), D(-99999)>>) >>) }

OwidResponses ==
    { NetFail,
      Body(<< Row("World", I(2027), D(4010000)),
              Row("Chile", I(2024), I(90)),
              Row("World", I(2023), I(37000)),
              Row("World", I(2025), T),
              Row("World", I(2020), I(35000)),
              Row("World", T, I(36000)),
              Row("World", I(1989), I(22000)),
              Row("World", I(2021), E),
              Row("World", I(2022), None) >>) }

(* -------------------------------- state -------------------------------- *)

VARIABLES
    refresh_in_flight,  \* self._refresh_in_flight
    btn_state,          \* state of self.refresh_btn: "normal" or "disabled"
    status,             \* text of self.status, as a tuple of its parts
    budget_choice,      \* self.budget_choice (Tk variable)
    budget_start_year,  \* self.budget_start_year (Tk variable), characters
    q,                  \* self._q, oldest message first
    workers,            \* the _refresh_worker threads ever started, in order
    cards,              \* self.cards: title -> [main, sub]
    last_snapshot,      \* self.last_snapshot: <<>> for None, else <<snap>>
    after_pending,      \* _poll_queue callbacks scheduled with self.after
    errorbox,           \* the open messagebox.showerror: <<>> or <<tb>>
    nowYear,            \* datetime.now().year
    calls,              \* history: refresh_async calls made after __init__
    request,            \* history: the request captured by the last accepted call
    enqueued,           \* history: the messages ever put on the queue
    probe               \* a call of a function or method on given arguments,
                        \* made apart from the running application: <<>>, or
                        \* [fn, args, done, out]

uiVars == <<refresh_in_flight, btn_state, status, budget_choice,
            budget_start_year, cards, last_snapshot, after_pending, errorbox>>

vars == <<refresh_in_flight, btn_state, status, budget_choice,
          budget_start_year, q, workers, cards, last_snapshot, after_pending,
          errorbox, nowYear, calls, request, enqueued, probe>>

\* What the user may leave in the start-year spinbox.
StartYearTexts ==
    { <<"2", "0", "2", "0">>,
      <<" ", "2", "0", "2", "4">> }

Titles ==
    << "Latest CO2 (ppm)",
       "CO2 in atmosphere (GtCO2)",
       "Above pre-industrial (ppm)",
       "Estimated budget used (GtCO2)",
       "Estimated budget remaining (GtCO2)" >>

TitleSet == { Titles[i] : i \in DOMAIN Titles }

\* A card as __init__ leaves it: value "-" (the dash), empty sub-text.
EmptyCard == [main |-> <<"-">>, sub |-> <<>>]

\* self._set_card(title, main, sub)
SetCard(cs, title, main, sub) ==
    [cs EXCEPT ![title] = [main |-> main, sub |-> sub]]

RECURSIVE SumSeries(_)
SumSeries(emissions) ==
    IF emissions = <<>> THEN 0
    ELSE SumSeries(Tail(emissions)) + Head(emissions)[2]

\* ppm * 7.80432 for ppm in hundredths: [units, e7], the whole gigatonnes and
\* the rest in units of 10^-7. The product is taken in two parts, each
\* within 32 bits: 780432 = 78 * 10^4 + 432.
gtco2_in_atmosphere_from_ppm(ppm) ==
    LET hi == ppm * (PPM_TO_GTCO2_IN_ATMOSPHERE \div 10000)
        lo == ppm * (PPM_TO_GTCO2_IN_ATMOSPHERE % 10000)
        rest == (hi % 1000) * 10000 + lo
    IN  [units |-> hi \div 1000 + rest \div 10000000, e7 |-> rest % 10000000]

\* App.render: the cards after it. A text f"{x:.2f} ppm" is <<x, "ppm">> with
\* x in hundredths; ":.1f" keeps tenths and ":.0f" units, both rounded.
render(cs, snap, emissions, start_year, end_year, budget_label) ==
    LET ppm == snap.ppm
        gt_atm == gtco2_in_atmosphere_from_ppm(ppm)
        above_pre == ppm - PREINDUSTRIAL_PPM
        budget_gt == BudgetGet(budget_label, BUDGETS_GTCO2[1][2])
        used_gt == IF emissions # <<>> THEN SumSeries(emissions) ELSE 0
        remaining_gt == budget_gt - used_gt
        c1 == SetCard(cs, Titles[1], <<ppm, "ppm">>,
                      <<"NOAA Mauna Loa daily mean, latest valid date:",
                        snap.date[1], snap.date[2], snap.date[3]>>)
        c2 == SetCard(c1, Titles[2],
                      <<gt_atm.units + (IF 2 * gt_atm.e7 >= 10000000 THEN 1 ELSE 0),
                        "GtCO2">>,
                      <<"Derived:", ppm, PPM_TO_GTCO2_IN_ATMOSPHERE>>)
        c3 == SetCard(c2, Titles[3], <<above_pre, "ppm">>,
                      <<"Using as pre-industrial reference",
                        RoundDiv(PREINDUSTRIAL_PPM, 100)>>)
        c4 == SetCard(c3, Titles[4], <<RoundDiv(used_gt, 10), "GtCO2">>,
                      <<"Sum of annual global emissions (OWID)",
                        start_year, end_year>>)
        c5 == SetCard(c4, Titles[5], <<RoundDiv(remaining_gt, 10), "GtCO2">>,
                      <<"Negative means overshoot">>)
    IN  c5

\* Variant of parse_start_year_main_thread: the year is not clamped.
parse_start_year_no_clamp(raw, nowy) ==
    LET p == IntOfText(raw)
    IN  IF p.ok THEN p.v ELSE DefaultStartYear

\* App._parse_start_year_main_thread
parse_start_year_main_thread(raw, nowy) ==
    LET p == IntOfText(raw)
        y0 == IF p.ok THEN p.v ELSE DefaultStartYear
        y1 == IF y0 < MinStartYear THEN MinStartYear ELSE y0
    IN  IF y1 > nowy THEN nowy ELSE y1

\* A thread started on _refresh_worker(start_year, end_year, budget_label).
\* pc is where it stands; snap, emissions and tb are its locals; noaa, owid
\* and owidArgs record the fetches it has made so far.
NewWorker(start_year, end_year, budget_label) ==
    [pc |-> "fetch_noaa",
     start_year |-> start_year, end_year |-> end_year,
     budget_label |-> budget_label,
     snap |-> NoSnap, emissions |-> <<>>, tb |-> "",
     noaa |-> "none", owid |-> "none", owidArgs |-> <<>>]

Alive(w) == w.pc # "done"

\* The thread after the put that ends it: its frame (arguments, locals and
\* the record of its fetches) is gone.
Ended == [NewWorker(0, 0, "") EXCEPT !.pc = "done"]

(* --------------------------- interactive thread ----------------------- *)

\* Variant of RefreshIgnored: the guard of lines 242-243 left out.
RefreshIgnored_never == FALSE

\* Lines 242-243: with the flag set the call returns at once.
RefreshIgnored == refresh_in_flight

\* App.refresh_async, whoever calls it (the Refresh button, __init__).
refresh_async ==
    IF RefreshIgnored
    THEN UNCHANGED <<refresh_in_flight, btn_state, status, workers, request>>
    ELSE
    LET start_year == parse_start_year_main_thread(budget_start_year, nowYear)
        budget_label == budget_choice
        end_year == nowYear
    IN  /\ refresh_in_flight' = TRUE
        /\ btn_state' = "disabled"
        /\ status' = <<"Refreshing...">>
        /\ workers' = Append(workers, NewWorker(start_year, end_year, budget_label))
        /\ request' = [start_year |-> start_year, end_year |-> end_year,
                       budget_label |-> budget_label]

\* A call of refresh_async from the event loop after construction.
CallRefresh ==
    /\ calls < MaxCalls
    /\ calls' = calls + 1
    /\ refresh_async
    /\ UNCHANGED <<budget_choice, budget_start_year, q, cards, last_snapshot,
                   after_pending, errorbox, nowYear, probe, enqueued>>

\* Variant of poll_finish: the tick does not schedule the next one.
poll_finish_no_after(fired) ==
    /\ refresh_in_flight' = FALSE
    /\ btn_state' = "normal"
    /\ after_pending' = after_pending - fired

\* Variant of poll_finish: the flag and the button are left as they are.
poll_finish_stays_in_flight(fired) ==
    /\ refresh_in_flight' = refresh_in_flight
    /\ btn_state' = btn_state
    /\ after_pending' = (after_pending - fired) + 1

\* Lines 294-296: the end of _poll_queue after a message was handled. The
\* step takes `fired` callbacks off the timer: 1 when the tick begins in this
\* step, 0 when it began earlier and stood in the dialog.
poll_finish(fired) ==
    /\ refresh_in_flight' = FALSE
    /\ btn_state' = "normal"
    /\ after_pending' = (after_pending - fired) + 1

\* Variant of poll_ok: the status line is not written.
poll_ok_keeps_status(msg) ==
    /\ last_snapshot' = <<msg[2]>>
    /\ cards' = render(cards, msg[2], msg[3], msg[4], msg[5], msg[6])
    /\ status' = status

\* Variant of poll_ok: render is given the budget selector's current value
\* instead of the label the message carries.
poll_ok_reads_config(msg) ==
    /\ last_snapshot' = <<msg[2]>>
    /\ cards' = render(cards, msg[2], msg[3], msg[4], msg[5], budget_choice)
    /\ status' = <<"Updated", nowYear>>

\* Lines 284-288: the reaction to an "ok" message.
poll_ok(msg) ==
    /\ last_snapshot' = <<msg[2]>>
    /\ cards' = render(cards, msg[2], msg[3], msg[4], msg[5], msg[6])
    /\ status' = <<"Updated", nowYear>>

\* Variant of poll_err: the flag is cleared and the button enabled before the
\* dialog is shown.
poll_err_releases(msg) ==
    /\ status' = <<"Error">>
    /\ refresh_in_flight' = FALSE
    /\ btn_state' = "normal"
    /\ errorbox' = <<msg[2]>>
    /\ UNCHANGED <<cards, last_snapshot>>

\* Variant of poll_err: a failure resets the cards and the snapshot.
poll_err_blanks(msg) ==
    /\ status' = <<"Error">>
    /\ errorbox' = <<msg[2]>>
    /\ cards' = [t \in DOMAIN cards |-> [main |-> <<"-">>, sub |-> <<>>]]
    /\ last_snapshot' = <<>>
    /\ UNCHANGED <<refresh_in_flight, btn_state>>

\* Lines 289-292, up to the modal dialog: the reaction to an "err" message.
poll_err(msg) ==
    /\ status' = <<"Error">>
    /\ errorbox' = <<msg[2]>>
    /\ UNCHANGED <<refresh_in_flight, btn_state, cards, last_snapshot>>

\* App._poll_queue, a callback of self.after: one tick of the poll loop. On an
\* "err" message it stops inside messagebox.showerror, which runs the event
\* loop until the user dismisses the dialog (DismissError resumes it).
PollQueue ==
    /\ after_pending > 0
    /\ \/ /\ q = <<>>
          /\ after_pending' = (after_pending - 1) + 1
          /\ UNCHANGED <<refresh_in_flight, btn_state, status, q, cards,
                         last_snapshot, errorbox>>
       \/ /\ q # <<>> /\ Head(q)[1] = "ok"
          /\ q' = Tail(q)
          /\ poll_ok(Head(q))
          /\ poll_finish(1)
          /\ UNCHANGED errorbox
       \/ /\ q # <<>> /\ Head(q)[1] # "ok"
          /\ q' = Tail(q)
          /\ poll_err(Head(q))
          /\ after_pending' = after_pending - 1
    /\ UNCHANGED <<budget_choice, budget_start_year, workers, nowYear, probe, calls,
                   request, enqueued>>

\* Variant of DismissError: after a failure _poll_queue starts the refresh
\* again by itself, with the same request.
DismissError_retries ==
    /\ errorbox # <<>>
    /\ errorbox' = <<>>
    /\ after_pending' = after_pending + 1
    /\ refresh_in_flight' = TRUE
    /\ btn_state' = "disabled"
    /\ status' = <<"Refreshing...">>
    /\ workers' = Append(workers,
                         NewWorker(request.start_year, request.end_year,
                                   request.budget_label))
    /\ UNCHANGED <<budget_choice, budget_start_year, q, cards, last_snapshot,
                   nowYear, probe, calls, request, enqueued>>

\* The user closes the error dialog: showerror returns and _poll_queue ends.
DismissError ==
    /\ errorbox # <<>>
    /\ errorbox' = <<>>
    /\ poll_finish(0)
    /\ UNCHANGED <<status, budget_choice, budget_start_year, q, workers, cards,
                   last_snapshot, nowYear, probe, calls, request, enqueued>>

\* The user picks a budget in the read-only combobox (not under the dialog,
\* which is modal).
EditBudget ==
    /\ errorbox = <<>>
    /\ \E label \in BudgetKeys :
          /\ label # budget_choice
          /\ budget_choice' = label
    /\ UNCHANGED <<refresh_in_flight, btn_state, status, budget_start_year, q,
                   workers, cards, last_snapshot, after_pending, errorbox,
                   nowYear, probe, calls, request, enqueued>>

\* The user types into the start-year spinbox.
EditStartYear ==
    /\ errorbox = <<>>
    /\ \E text \in StartYearTexts :
          /\ text # budget_start_year
          /\ budget_start_year' = text
    /\ UNCHANGED <<refresh_in_flight, btn_state, status, budget_choice, q,
                   workers, cards, last_snapshot, after_pending, errorbox,
                   nowYear, probe, calls, request, enqueued>>

\* The calendar year changes while the application runs.
NewYear ==
    /\ nowYear < ClockStart + MaxNewYears
    /\ nowYear' = nowYear + 1
    /\ UNCHANGED <<refresh_in_flight, btn_state, status, budget_choice,
                   budget_start_year, q, workers, cards, last_snapshot,
                   after_pending, errorbox, calls, probe, request, enqueued>>

(* ------------------------------ worker thread ------------------------- *)

\* Variant of worker_fetch_noaa: the exception is not caught and ends the
\* thread.
worker_fetch_noaa_uncaught(w, resp) ==
    LET r == fetch_latest_noaa_daily_ppm(resp)
    IN  IF r.ok
        THEN [w EXCEPT !.pc = "fetch_owid", !.snap = r.snap, !.noaa = "ok"]
        ELSE Ended

\* Variant of worker_fetch_noaa: after the exception the worker goes on to
\* the emissions fetch.
worker_fetch_noaa_goes_on(w, resp) ==
    LET r == fetch_latest_noaa_daily_ppm(resp)
    IN  IF r.ok
        THEN [w EXCEPT !.pc = "fetch_owid", !.snap = r.snap, !.noaa = "ok"]
        ELSE [w EXCEPT !.pc = "fetch_owid", !.tb = r.err, !.noaa = "fail"]

\* Variant of worker_fetch_noaa: with the concentration fetched the worker
\* goes to the put, the emissions fetch left out.
worker_fetch_noaa_skips_owid(w, resp) ==
    LET r == fetch_latest_noaa_daily_ppm(resp)
    IN  IF r.ok
        THEN [w EXCEPT !.pc = "put_ok", !.snap = r.snap, !.noaa = "ok"]
        ELSE [w EXCEPT !.pc = "put_err", !.tb = r.err, !.noaa = "fail"]

\* Line 267: snap = fetch_latest_noaa_daily_ppm(); an exception goes to
\* the except clause.
worker_fetch_noaa(w, resp) ==
    LET r == fetch_latest_noaa_daily_ppm(resp)
    IN  IF r.ok
        THEN [w EXCEPT !.pc = "fetch_owid", !.snap = r.snap, !.noaa = "ok"]
        ELSE [w EXCEPT !.pc = "put_err", !.tb = r.err, !.noaa = "fail"]

\* Line 268: emissions = fetch_world_emissions_owid(start_year, end_year)
worker_fetch_owid(w, resp) ==
    LET r == fetch_world_emissions_owid(resp, w.start_year, w.end_year)
        called == <<w.start_year, w.end_year>>
    IN  IF r.ok
        THEN [w EXCEPT !.pc = "put_ok", !.emissions = r.series, !.owid = "ok",
                       !.owidArgs = called]
        ELSE [w EXCEPT !.pc = "put_err", !.tb = r.err, !.owid = "fail",
                       !.owidArgs = called]

\* Line 269: the message of a successful refresh.
ok_message(w) ==
    <<"ok", w.snap, w.emissions, w.start_year, w.end_year, w.budget_label>>

\* Lines 270-272: the message of a failed refresh.
err_message(w) == <<"err", w.tb>>

\* Variant of worker_after_put_ok: the 'err' put runs as a finally clause.
worker_after_put_ok_falls_through(w) == [w EXCEPT !.pc = "put_err"]

\* Lines 269-270: after the put of the try block the function returns.
worker_after_put_ok(w) == Ended

\* Variant of WorkerLeaves: the worker writes the status label itself.
WorkerLeaves_sets_status ==
    /\ status' = <<"Worker done">>
    /\ UNCHANGED <<refresh_in_flight, btn_state, budget_choice,
                   budget_start_year, cards, last_snapshot, after_pending,
                   errorbox, nowYear, probe, calls, request>>

\* The worker touches nothing but its own frame and the queue.
WorkerLeaves == UNCHANGED <<uiVars, nowYear, probe, calls, request>>

\* One step of thread id of _refresh_worker: a fetch, or the put that ends it.
WorkerStep(id) ==
    /\ id \in DOMAIN workers
    /\ LET w == workers[id] IN
       \/ /\ w.pc = "fetch_noaa"
          /\ \E resp \in NoaaResponses :
                workers' = [workers EXCEPT ![id] = worker_fetch_noaa(w, resp)]
          /\ UNCHANGED <<q, enqueued>>
       \/ /\ w.pc = "fetch_owid"
          /\ \E resp \in OwidResponses :
                workers' = [workers EXCEPT ![id] = worker_fetch_owid(w, resp)]
          /\ UNCHANGED <<q, enqueued>>
       \/ /\ w.pc = "put_ok"
          /\ q' = Append(q, ok_message(w))
          /\ enqueued' = enqueued + (Len(q') - Len(q))
          /\ workers' = [workers EXCEPT ![id] = worker_after_put_ok(w)]
       \/ /\ w.pc = "put_err"
          /\ q' = Append(q, err_message(w))
          /\ enqueued' = enqueued + (Len(q') - Len(q))
          /\ workers' = [workers EXCEPT ![id] = Ended]
    /\ WorkerLeaves

Worker == \E id \in DOMAIN workers : WorkerStep(id)

(* ----------------------------- specification -------------------------- *)

\* The state __init__ leaves: the widgets built, one _poll_queue callback
\* scheduled (line 213) and the initial refresh_async accepted (line 216).
AppInit ==
    /\ nowYear = ClockStart
    /\ budget_choice = BUDGETS_GTCO2[1][1]
    /\ budget_start_year = <<"2", "0", "2", "0">>
    /\ q = <<>>
    /\ cards = [t \in TitleSet |-> EmptyCard]
    /\ last_snapshot = <<>>
    /\ after_pending = 1
    /\ errorbox = <<>>
    /\ refresh_in_flight = TRUE
    /\ btn_state = "disabled"
    /\ status = <<"Refreshing...">>
    /\ workers = << NewWorker(
                      parse_start_year_main_thread(<<"2", "0", "2", "0">>, ClockStart),
                      ClockStart, BUDGETS_GTCO2[1][1]) >>
    /\ request = [start_year |->
                      parse_start_year_main_thread(<<"2", "0", "2", "0">>, ClockStart),
                   end_year |-> ClockStart,
                   budget_label |-> BUDGETS_GTCO2[1][1]]
    /\ calls = 0
    /\ enqueued = 0

Init ==
    /\ AppInit
    /\ probe = <<>>

Next ==
    \/ CallRefresh
    \/ PollQueue
    \/ DismissError
    \/ EditBudget
    \/ EditStartYear
    \/ NewYear
    \/ Worker

Spec == Init /\ [][Next]_vars

\* The worker thread is scheduled and its fetches return or raise; the Tk
\* event loop runs the scheduled _poll_queue callbacks.
LiveSpec ==
    /\ Spec
    /\ WF_vars(Worker)
    /\ WF_vars(PollQueue)

\* As LiveSpec, and the user closes the error dialog.
LiveUiSpec == LiveSpec /\ WF_vars(DismissError)

(* ------------------------ the functions on their own ------------------ *)

\* How many lines a NOAA file under test has at most.
MaxLines == 3

\* How many rows an OWID file under test, or years a series under test, has
\* at most.
MaxRows == 3

appVars == <<refresh_in_flight, btn_state, status, budget_choice,
             budget_start_year, q, workers, cards, last_snapshot,
             after_pending, errorbox, nowYear, calls, request, enqueued>>

\* The sequences over S of length at most n.
SeqsUpTo(S, n) == UNION { [1..k -> S] : k \in 0..n }

Probe(fn, args) == [fn |-> fn, args |-> args, done |-> FALSE, out |-> <<>>]

Probed(fn) == probe # <<>> /\ probe.fn = fn /\ probe.done

\* The lines a NOAA file under test is made of: a comment, a blank line, two
\* good rows, a row of the missing-value marker, a row of zero, a row with a
\* month that is no number, a short row, and a row of numbers that name no
\* calendar day.
NoaaLines ==
    { Comment,
      Blank,
      Data(<<I(2026), I(1), I(4), D(202601), D(42850)>>),
      Data(<<I(2026), I(3), I(9), D(202618), I(431)>>),
      Data(<<I(2026), I(1), I(5), D(202601), D(-99999)>>),
      Data(<<I(2026), I(1), I(6), D(202601), I(0)>>),
      Data(<<I(2026), T, I(7), D(202602), D(43000)>>),
      Data(<<I(2026), I(3)>>),
      Data(<<I(2026), I(2), I(30), D(202616), D(42900)>>) }

NoaaProbes == { Probe("noaa", <<body>>) : body \in SeqsUpTo(NoaaLines, MaxLines) }

\* fetch_latest_noaa_daily_ppm() with the server answering the body.
ApplyNoaa ==
    /\ probe # <<>> /\ probe.fn = "noaa" /\ ~probe.done
    /\ probe' = [probe EXCEPT
                    !.done = TRUE,
                    !.out = <<fetch_latest_noaa_daily_ppm(Body(probe.args[1]))>>]
    /\ UNCHANGED appVars

\* The rows an OWID file under test is made of: World rows of 2021 and 2020,
\* a second World row of 2020, a row of another country, a World row of 2019,
\* and World rows with an empty co2, no co2 column, a co2 that is no number
\* and a year that is no integer.
OwidRows ==
    { Row("World", I(2021), I(36000)),
      Row("World", I(2020), I(35000)),
      Row("World", I(2020), D(3412000)),
      Row("Chile", I(2020), I(9000)),
      Row("World", I(2019), I(33000)),
      Row("World", I(2021), E),
      Row("World", I(2020), None),
      Row("World", I(2021), T),
      Row("World", T, I(32000)) }

OwidRanges == { <<2020, 2021>>, <<2019, 2020>> }

OwidProbes ==
    { Probe("owid", <<rows, range[1], range[2]>>) :
        rows \in SeqsUpTo(OwidRows, MaxRows), range \in OwidRanges }

\* fetch_world_emissions_owid(start_year, end_year) with the server
\* answering the rows.
ApplyOwid ==
    /\ probe # <<>> /\ probe.fn = "owid" /\ ~probe.done
    /\ probe' = [probe EXCEPT
                    !.done = TRUE,
                    !.out = <<fetch_world_emissions_owid(
                                Body(probe.args[1]), probe.args[2], probe.args[3])>>]
    /\ UNCHANGED appVars

\* The series render is given: up to MaxRows years of 35.0, 250.0 or
\* 300.0 GtCO2 each.
RenderYears == { <<2020, 3500>>, <<2021, 25000>>, <<2022, 30000>> }

\* The labels render is given: the keys of the table, the empty text and a
\* text that is no key.
RenderLabels == BudgetKeys \cup { "", "2C budget" }

RenderProbes ==
    { Probe("render", <<[date |-> <<2026, 3, 9>>, ppm |-> 43100], series, 2020,
                        2026, label>>) :
        series \in SeqsUpTo(RenderYears, MaxRows), label \in RenderLabels }

\* App.render(snap, emissions, start_year, end_year, budget_label) on the
\* cards __init__ built.
ApplyRender ==
    /\ probe # <<>> /\ probe.fn = "render" /\ ~probe.done
    /\ probe' = [probe EXCEPT
                    !.done = TRUE,
                    !.out = <<render(cards, probe.args[1], probe.args[2],
                                     probe.args[3], probe.args[4], probe.args[5])>>]
    /\ UNCHANGED appVars

PureInit ==
    /\ AppInit
    /\ probe \in NoaaProbes \cup OwidProbes \cup RenderProbes

PureNext ==
    \/ ApplyNoaa
    \/ ApplyOwid
    \/ ApplyRender

\* Each function applied once to each input of the bounded sets.
PureSpec == PureInit /\ [][PureNext]_vars

(* ----------------------- the start-year field ------------------------- *)

\* What the user may leave in the start-year spinbox, a free-text entry:
\* years inside, below and above the range, signed numbers, blanks, nothing,
\* and texts that are no integer.
EnteredTexts ==
    { <<"2", "0", "2", "0">>,
      <<" ", "2", "0", "2", "4">>,
      <<"1", "9", "9", "0">>,
      <<"1", "9", "8", "9">>,
      <<"2", "0", "3", "1">>,
      <<"-", "5">>,
      <<"+", "2", "0", "0", "0">>,
      <<>>,
      <<" ", " ">>,
      <<"a", "b", "c">>,
      <<"2", "0", ".", "5">> }

\* The user types into the start-year spinbox, anything.
TypeStartYear ==
    /\ errorbox = <<>>
    /\ \E text \in EnteredTexts :
          /\ text # budget_start_year
          /\ budget_start_year' = text
    /\ UNCHANGED <<refresh_in_flight, btn_state, status, budget_choice, q,
                   workers, cards, last_snapshot, after_pending, errorbox,
                   nowYear, probe, calls, request, enqueued>>

\* The application idle after its first refresh: the concentration request
\* failed, the worker put its "err" message and ended, _poll_queue showed
\* the dialog and the user closed it.
IdleAfterError ==
    /\ nowYear = ClockStart
    /\ budget_choice = BUDGETS_GTCO2[1][1]
    /\ budget_start_year = <<"2", "0", "2", "0">>
    /\ q = <<>>
    /\ cards = [t \in TitleSet |-> EmptyCard]
    /\ last_snapshot = <<>>
    /\ after_pending = 1
    /\ errorbox = <<>>
    /\ refresh_in_flight = FALSE
    /\ btn_state = "normal"
    /\ status = <<"Error">>
    /\ workers = <<Ended>>
    /\ request = [start_year |-> 2020, end_year |-> ClockStart,
                  budget_label |-> BUDGETS_GTCO2[1][1]]
    /\ calls = 0
    /\ enqueued = 1
    /\ probe = <<>>

CaptureNext ==
    \/ TypeStartYear
    \/ NewYear
    \/ CallRefresh

\* The calls of refresh_async over all contents of the start-year field.
CaptureSpec == IdleAfterError /\ [][CaptureNext]_vars

(* -------------------------------- claims ------------------------------ *)

AliveWorkers == { id \in DOMAIN workers : Alive(workers[id]) }

\* The requests accepted so far: __init__'s and the calls not ignored.
Accepted == Len(workers)

\* C1: in every reachable state at most one _refresh_worker thread has been
\* started and has not yet put its result on the queue.
C1_AtMostOneWorker == Cardinality(AliveWorkers) <= 1

\* A second refresh was accepted after the first ended, and its worker runs
\* after a call was ignored.
C1_Witness ==
    /\ Accepted >= 2
    /\ Cardinality(AliveWorkers) = 1
    /\ calls > Accepted - 1

\* C2: a refresh_async call made while the in-flight flag is set changes
\* nothing: no worker is started, nothing is put on the queue, and the captured
\* request, the status, the button and the flag stay as they were.
C2_IgnoredCallNoEffect ==
    [][(refresh_in_flight /\ calls' = calls + 1) =>
          UNCHANGED <<refresh_in_flight, btn_state, status, budget_choice,
                      budget_start_year, q, workers, cards, last_snapshot,
                      after_pending, errorbox, request, enqueued>>]_vars

\* A call was ignored while the result of the running refresh was waiting on
\* the queue, not yet drained.
C2_Witness ==
    /\ calls > Accepted - 1
    /\ refresh_in_flight
    /\ q # <<>>
    /\ AliveWorkers = {}

\* C3: under fair scheduling of the worker, an accepted request, whose worker
\* is running, leads to a state where the worker has ended and every accepted
\* request has put its message ('ok' or 'err') on the queue: none is dropped.
C3_AcceptedLeadsToResult ==
    (AliveWorkers # {}) ~> (AliveWorkers = {} /\ enqueued = Accepted)

\* The second accepted request has produced its message.
C3_Witness ==
    /\ Accepted >= 2
    /\ enqueued >= 2
    /\ q # <<>>
    /\ q[Len(q)][1] \in {"ok", "err"}

\* C4: the messages ever enqueued never outnumber the accepted requests, and
\* once no worker is running the two counts are equal.
C4_OneMessagePerRequest ==
    /\ enqueued <= Accepted
    /\ AliveWorkers = {} => enqueued = Accepted
    /\ Len(q) <= enqueued

\* Two requests were accepted and both workers have put their message.
C4_Witness ==
    /\ Accepted = 2
    /\ enqueued = 2
    /\ AliveWorkers = {}

\* The step of _poll_queue that ends the handling of an "ok" message: the
\* message leaves the queue, the snapshot, the cards and the status show it.
OkHandled ==
    /\ q # <<>> /\ Head(q)[1] = "ok"
    /\ q' = Tail(q)
    /\ last_snapshot' = <<Head(q)[2]>>
    /\ cards'[Titles[1]].main = <<Head(q)[2].ppm, "ppm">>
    /\ status' = <<"Updated", nowYear>>

\* The step that ends the handling of an "err" message: the dialog, opened by
\* the tick that dequeued the message and set the status, is closed.
ErrHandled ==
    /\ errorbox # <<>>
    /\ errorbox' = <<>>
    /\ status = <<"Error">>
    /\ status' = status

\* C5: the flag goes from in-flight to idle only in a _poll_queue tick that
\* has dequeued a result and applied the UI reaction; while a finished
\* worker's message waits on the queue the flag is still set and a
\* refresh_async call starts nothing.
C5_IdleOnlyAfterDrain ==
    /\ [](q # <<>> => refresh_in_flight)
    /\ [][(q # <<>> /\ calls' = calls + 1) =>
              (workers' = workers /\ refresh_in_flight')]_vars
    /\ [][(refresh_in_flight /\ ~refresh_in_flight') =>
              (OkHandled \/ ErrHandled)]_vars

\* The error dialog is open: the failure was dequeued, the status reads
\* Error, and the flag is still set.
C5_Witness ==
    /\ errorbox # <<>>
    /\ status = <<"Error">>
    /\ refresh_in_flight
    /\ q = <<>>
    /\ AliveWorkers = {}

\* The budget total of a label, for the claims.
BudgetTotalOf(label) ==
    IF label = "1.5C budget (66% chance) ~420 GtCO2" THEN 42000 ELSE 58000

RECURSIVE TotalOf(_)
TotalOf(series) ==
    IF series = <<>> THEN 0 ELSE series[1][2] + TotalOf(Tail(series))

\* C6: the request captured when refresh_async is accepted is the one the
\* refresh uses throughout: the worker's arguments, the range of the emissions
\* fetch, the triple of the 'ok' message and the triple render labels the
\* cards with, whatever the configuration has become meanwhile.
C6_RequestCapturedByValue ==
    /\ [](\A id \in AliveWorkers :
            /\ workers[id].start_year = request.start_year
            /\ workers[id].end_year = request.end_year
            /\ workers[id].budget_label = request.budget_label
            /\ workers[id].owidArgs # <<>> =>
                  workers[id].owidArgs = <<request.start_year, request.end_year>>)
    /\ [](\A i \in DOMAIN q :
            q[i][1] = "ok" =>
               /\ q[i][4] = request.start_year
               /\ q[i][5] = request.end_year
               /\ q[i][6] = request.budget_label
               /\ \A j \in DOMAIN q[i][3] :
                     /\ q[i][3][j][1] >= request.start_year
                     /\ q[i][3][j][1] <= request.end_year)
    /\ [][(q # <<>> /\ Head(q)[1] = "ok" /\ q' = Tail(q)) =>
              /\ cards'[Titles[4]].sub[2] = request.start_year
              /\ cards'[Titles[4]].sub[3] = request.end_year
              /\ cards'[Titles[5]].main[1] =
                    RoundDiv(BudgetTotalOf(request.budget_label)
                                - TotalOf(Head(q)[3]), 10)]_vars

\* An 'ok' message waits on the queue while the budget selector and the
\* start-year field both differ from what the request captured.
C6_Witness ==
    /\ q # <<>>
    /\ Head(q)[1] = "ok"
    /\ Head(q)[6] # budget_choice
    /\ Head(q)[4] # parse_start_year_main_thread(budget_start_year, nowYear)
    /\ Head(q)[5] # nowYear

\* C7: a failure of either fetch short-circuits the worker into an 'err'
\* message: after a failed concentration fetch the emissions fetch is never
\* started, and the message put is 'ok' exactly when both fetches succeeded.
C7_FailureShortCircuits ==
    /\ [](\A id \in AliveWorkers :
            LET w == workers[id] IN
            /\ w.noaa = "fail" => (w.owid = "none" /\ w.owidArgs = <<>>)
            /\ w.pc = "fetch_owid" => w.noaa = "ok"
            /\ w.pc = "put_ok" <=> (w.noaa = "ok" /\ w.owid = "ok")
            /\ w.pc = "put_err" <=> (w.noaa = "fail" \/ w.owid = "fail"))
    /\ [][\A id \in AliveWorkers :
            (Len(q') = Len(q) + 1 /\ workers'[id] # workers[id]) =>
               (q'[Len(q')][1] = "ok" <=>
                   (workers[id].noaa = "ok" /\ workers[id].owid = "ok"))]_vars

\* A worker whose concentration fetch failed stands before its 'err' put,
\* the emissions fetch not started.
C7_Witness ==
    \E id \in AliveWorkers :
        /\ workers[id].pc = "put_err"
        /\ workers[id].noaa = "fail"
        /\ workers[id].owid = "none"

\* What the five cards must show after a render of an 'ok' message: the
\* concentration, the mass derived from it (within the rounding of 7.80432),
\* the excess over 280 ppm, the emissions summed and what is left of the
\* budget, each with the data of that one message.
RenderedFrom(cs, msg) ==
    LET ppm == msg[2].ppm
        used == TotalOf(msg[3])
        mass == cs[Titles[2]].main[1]
    IN  /\ cs[Titles[1]].main = <<ppm, "ppm">>
        /\ cs[Titles[1]].sub[2] = msg[2].date[1]
        /\ cs[Titles[1]].sub[3] = msg[2].date[2]
        /\ cs[Titles[1]].sub[4] = msg[2].date[3]
        /\ cs[Titles[2]].sub[2] = ppm
        /\ mass * 1000 >= ppm * 78 - 500
        /\ mass * 1000 <= ppm * 79 + 500
        /\ cs[Titles[3]].main = <<ppm - 28000, "ppm">>
        /\ cs[Titles[4]].main = <<RoundDiv(used, 10), "GtCO2">>
        /\ cs[Titles[4]].sub[2] = msg[4]
        /\ cs[Titles[4]].sub[3] = msg[5]
        /\ cs[Titles[5]].main =
              <<RoundDiv(BudgetTotalOf(msg[6]) - used, 10), "GtCO2">>

\* C8: consuming a Failure renders nothing: the five cards and last_snapshot
\* keep their values, through the dequeue and the dialog, and the error shows
\* only in the status line and the dialog; consuming a Success renders all
\* five cards from that one message. Nothing else changes the cards.
C8_NoPartialRendering ==
    /\ [][(q # <<>> /\ Head(q)[1] = "err" /\ q' = Tail(q)) =>
              /\ cards' = cards
              /\ last_snapshot' = last_snapshot
              /\ status' = <<"Error">>
              /\ errorbox' = <<Head(q)[2]>>]_vars
    /\ [][(errorbox # <<>>) => (cards' = cards /\ last_snapshot' = last_snapshot)]_vars
    /\ [][(q # <<>> /\ Head(q)[1] = "ok" /\ q' = Tail(q)) =>
              /\ RenderedFrom(cards', Head(q))
              /\ last_snapshot' = <<Head(q)[2]>>]_vars
    /\ [][(cards' # cards \/ last_snapshot' # last_snapshot) =>
              (q # <<>> /\ Head(q)[1] = "ok" /\ q' = Tail(q))]_vars

\* A failure has been consumed (the dialog is open) while the cards show the
\* data of an earlier successful refresh.
C8_Witness ==
    /\ errorbox # <<>>
    /\ status = <<"Error">>
    /\ last_snapshot # <<>>
    /\ cards[Titles[1]].main = <<last_snapshot[1].ppm, "ppm">>

\* C9: nothing retries by itself: when the handling of a Failure ends the
\* coordinator is idle with no worker and an empty queue; a worker is started
\* and the flag is set only by a refresh_async call; and while idle nothing is
\* started or enqueued by any other step.
C9_NoAutomaticRetry ==
    /\ [][(errorbox # <<>> /\ errorbox' = <<>>) =>
              /\ ~refresh_in_flight'
              /\ workers' = workers
              /\ \A id \in DOMAIN workers' : ~Alive(workers'[id])
              /\ q' = <<>>]_vars
    /\ [][(workers' # workers /\ Len(workers') # Len(workers)) =>
              calls' = calls + 1]_vars
    /\ [][(~refresh_in_flight /\ calls' = calls) =>
              /\ ~refresh_in_flight'
              /\ workers' = workers
              /\ q' = q
              /\ enqueued' = enqueued]_vars

\* A failure has been consumed and dismissed: idle, the status still Error.
C9_Witness ==
    /\ ~refresh_in_flight
    /\ status = <<"Error">>
    /\ errorbox = <<>>
    /\ btn_state = "normal"

\* A thread that exists before and after the step has moved.
WorkerMoved ==
    \E id \in DOMAIN workers :
        /\ id \in DOMAIN workers'
        /\ workers'[id] # workers[id]

\* C10: a step of a worker leaves the flag, the configuration, the status,
\* the button, the cards and last_snapshot unchanged; the flag is set only in
\* a refresh_async call, in the step that starts the worker, and cleared only
\* in a _poll_queue tick that has dequeued a result.
C10_FlagOwnedByMainThread ==
    /\ [][WorkerMoved =>
              UNCHANGED <<refresh_in_flight, budget_choice, budget_start_year,
                          status, btn_state, cards, last_snapshot>>]_vars
    /\ [][(~refresh_in_flight /\ refresh_in_flight') =>
              /\ calls' = calls + 1
              /\ ~WorkerMoved
              /\ workers' = Append(workers, workers'[Len(workers')])
              /\ workers'[Len(workers')].pc = "fetch_noaa"]_vars
    /\ [][(refresh_in_flight /\ ~refresh_in_flight') =>
              /\ ~WorkerMoved
              /\ (q # <<>> /\ q' = Tail(q)) \/ (errorbox # <<>> /\ errorbox' = <<>>)]_vars

\* A worker has run to its end, and put an 'ok' message, while the flag it
\* never touches is still set.
C10_Witness ==
    /\ AliveWorkers = {}
    /\ q # <<>>
    /\ q[Len(q)][1] = "ok"
    /\ refresh_in_flight
    /\ btn_state = "disabled"
    /\ status = <<"Refreshing...">>

\* A line of the concentration file that passes the numeric-parse and the
\* positivity filters: five columns or more, year, month and day integers,
\* the daily mean a number above zero.
PassesNoaaFilters(line) ==
    /\ line.kind = "data"
    /\ Len(line.parts) >= 5
    /\ line.parts[1].k = "int" /\ line.parts[2].k = "int"
    /\ line.parts[3].k = "int"
    /\ line.parts[5].k \in {"int", "dec"}
    /\ line.parts[5].c > 0

\* C11: for every concentration CSV body the fetch returns the record with
\* the maximum date among the rows that pass the filters, and fails if and
\* only if no row passes them.
C11_LatestRowOrFailure ==
    Probed("noaa") =>
        LET body == probe.args[1]
            r == probe.out[1]
            passing == { i \in DOMAIN body : PassesNoaaFilters(body[i]) }
            DateOf(i) == <<body[i].parts[1].c \div 100, body[i].parts[2].c \div 100,
                           body[i].parts[3].c \div 100>>
        IN  /\ ~r.ok <=> passing = {}
            /\ r.ok =>
                  \E i \in passing :
                     /\ r.snap = [date |-> DateOf(i), ppm |-> body[i].parts[5].c]
                     /\ \A j \in passing : ~DateLess(DateOf(i), DateOf(j))

\* The rows of an emissions file the fetch is to return for a range: the
\* country is World, the year an integer of the range, co2 a number.
WellFormedWorld(row, start_year, end_year) ==
    /\ row.country = "World"
    /\ row.year.k = "int"
    /\ row.year.c >= start_year * 100 /\ row.year.c <= end_year * 100
    /\ row.co2.k \in {"int", "dec"}

\* A row is malformed when its year is no integer or its co2 is missing,
\* empty or no number.
Malformed(row) == row.year.k # "int" \/ row.co2.k \notin {"int", "dec"}

\* Each element of the series is made of a World row of the range, its value
\* the row's co2 divided by 1000.
FromWorldRowsInRange(series, rows, start_year, end_year) ==
    \A i \in DOMAIN series :
        /\ series[i][1] >= start_year /\ series[i][1] <= end_year
        /\ \E k \in DOMAIN rows :
              /\ rows[k].country = "World"
              /\ rows[k].year = I(series[i][1])
              /\ rows[k].co2.k \in {"int", "dec"}
              /\ series[i][2] * 1000 = rows[k].co2.c

\* The statement of C12 as the specification has it: for every emissions
\* body and every range the series is strictly ascending by year, made of
\* World rows of the range only, each value the raw co2 divided by 1000.
C12_StrictlyAscending ==
    Probed("owid") =>
        LET series == probe.out[1].series
        IN  /\ probe.out[1].ok
            /\ \A i \in 1..(Len(series) - 1) : series[i][1] < series[i + 1][1]
            /\ FromWorldRowsInRange(series, probe.args[1], probe.args[2],
                                    probe.args[3])

\* C12: for every emissions body and every range the series is ascending by
\* year, strictly so when no two well-formed World rows of the range have the
\* same year (rows of one year all stay, next to each other); it is made of
\* World rows of the range only, each value the raw co2 divided by 1000.
C12_AscendingWorldRowsInRange ==
    Probed("owid") =>
        LET rows == probe.args[1]
            series == probe.out[1].series
            kept == { k \in DOMAIN rows :
                        WellFormedWorld(rows[k], probe.args[2], probe.args[3]) }
            distinct == \A k, l \in kept : k # l => rows[k].year # rows[l].year
        IN  /\ probe.out[1].ok
            /\ \A i \in 1..(Len(series) - 1) : series[i][1] <= series[i + 1][1]
            /\ distinct =>
                  \A i \in 1..(Len(series) - 1) : series[i][1] < series[i + 1][1]
            /\ FromWorldRowsInRange(series, rows, probe.args[2], probe.args[3])

\* A body with the rows of 2021 and then two of 2020 has given a series of
\* three, the two of 2020 first.
C12_Witness ==
    /\ Probed("owid")
    /\ Len(probe.args[1]) = 3
    /\ probe.args[1][1].year = I(2021)
    /\ Len(probe.out[1].series) = 3
    /\ probe.out[1].series[1][1] = 2020
    /\ probe.out[1].series[2][1] = 2020
    /\ probe.out[1].series[3][1] = 2021

\* C13: a malformed emissions row does not abort the fetch: the fetch does
\* not raise, and every well-formed World row of the range, before or after
\* the malformed one, is returned, once for each time it occurs.
C13_MalformedRowSkipped ==
    Probed("owid") =>
        LET rows == probe.args[1]
            series == probe.out[1].series
            kept == { k \in DOMAIN rows :
                        WellFormedWorld(rows[k], probe.args[2], probe.args[3]) }
        IN  /\ probe.out[1].ok
            /\ Len(series) = Cardinality(kept)
            /\ \A k \in kept :
                  \E i \in DOMAIN series :
                      /\ I(series[i][1]) = rows[k].year
                      /\ series[i][2] * 1000 = rows[k].co2.c

\* A malformed World row between two well-formed ones, both returned.
C13_Witness ==
    /\ Probed("owid")
    /\ Len(probe.args[1]) = 3
    /\ WellFormedWorld(probe.args[1][1], probe.args[2], probe.args[3])
    /\ probe.args[1][2].country = "World" /\ Malformed(probe.args[1][2])
    /\ WellFormedWorld(probe.args[1][3], probe.args[2], probe.args[3])
    /\ probe.out[1].ok
    /\ Len(probe.out[1].series) = 2

\* C15: render takes the budget total from the table when the label is a
\* key and the first entry, 580.0, when it is not; the card of the remaining
\* budget shows the total minus the sum of the series (the card of the used
\* budget shows the sum, 0 for an empty series), below zero when more is used.
C15_BudgetRemaining ==
    Probed("render") =>
        LET series == probe.args[2]
            label == probe.args[5]
            total == IF label \in BudgetKeys THEN BudgetTotalOf(label) ELSE 58000
            out == probe.out[1]
        IN  /\ out[Titles[4]].main[1] * 10 = TotalOf(series)
            /\ series = <<>> => out[Titles[4]].main[1] = 0
            /\ out[Titles[5]].main[1] * 10 = total - TotalOf(series)

\* A label that is no key, and more used than 580: the remaining is negative.
C15_Witness ==
    /\ Probed("render")
    /\ probe.args[5] \notin BudgetKeys
    /\ TotalOf(probe.args[2]) > 58000
    /\ probe.out[1][Titles[5]].main[1] < 0

\* The integer a content of the start-year field stands for, 2020 for the
\* contents that are no integer.
C14_YearEntered(text) ==
    CASE text = <<"2", "0", "2", "0">> -> 2020
      [] text = <<" ", "2", "0", "2", "4">> -> 2024
      [] text = <<"1", "9", "9", "0">> -> 1990
      [] text = <<"1", "9", "8", "9">> -> 1989
      [] text = <<"2", "0", "3", "1">> -> 2031
      [] text = <<"-", "5">> -> -5
      [] text = <<"+", "2", "0", "0", "0">> -> 2000
      [] OTHER -> 2020

\* C14: whatever the start-year field holds, a call of refresh_async made
\* while idle is accepted, and the start year it captures lies in
\* [1990, current year]: the integer entered, 2020 for an entry that is no
\* integer, brought into the range; the end year captured is the current
\* year at that moment.
C14_StartYearClamped ==
    [][(calls' = calls + 1 /\ ~refresh_in_flight) =>
          LET w == workers'[Len(workers')]
              y == C14_YearEntered(budget_start_year)
          IN  /\ refresh_in_flight'
              /\ Len(workers') = Len(workers) + 1
              /\ w.start_year >= 1990 /\ w.start_year <= nowYear
              /\ w.start_year = (IF y < 1990 THEN 1990
                                 ELSE IF y > nowYear THEN nowYear ELSE y)
              /\ w.end_year = nowYear
              /\ request'.start_year = w.start_year
              /\ request'.end_year = w.end_year]_vars

\* A refresh accepted after a change of year with 2031 in the field: the
\* start year captured is the current year, as is the end year.
C14_Witness ==
    /\ refresh_in_flight
    /\ Len(workers) = 2
    /\ calls = 1
    /\ budget_start_year = <<"2", "0", "3", "1">>
    /\ nowYear = ClockStart + 1
    /\ request.start_year = ClockStart + 1
    /\ request.end_year = ClockStart + 1

\* C16: _poll_queue never waits for a result: a scheduled tick runs whether
\* or not a message is there, a tick that finds the queue empty changes
\* nothing, and every tick ends by scheduling one next tick (after an 'err'
\* message the tick ends when the dialog is closed), so at every moment
\* exactly one tick is scheduled or running.
C16_PollLoopAlwaysPending ==
    /\ [](after_pending > 0 => ENABLED PollQueue)
    /\ [](q = <<>> => ~ENABLED <<PollQueue>>_vars)
    /\ [](after_pending + (IF errorbox # <<>> THEN 1 ELSE 0) = 1)
    /\ [][Len(q') < Len(q) =>
             /\ after_pending = 1
             /\ Head(q)[1] = "ok" => (after_pending' = 1 /\ errorbox' = <<>>)
             /\ Head(q)[1] = "err" => (after_pending' = 0 /\ errorbox' # <<>>)]_vars
    /\ [][(errorbox # <<>> /\ errorbox' = <<>>) => after_pending' = 1]_vars

\* A tick has handled an 'ok' message and the next one is scheduled.
C16_Witness ==
    /\ last_snapshot # <<>>
    /\ ~refresh_in_flight
    /\ q = <<>>
    /\ after_pending = 1

\* C17: within a refresh the order is accept, concentration fetch, emissions
\* fetch, enqueue, dequeue: a request is accepted only with no worker and no
\* message left, the emissions fetch starts after the concentration fetch
\* returned, an 'ok' message is put only by a worker both of whose fetches
\* returned and carries their results, and a message on the queue, and so
\* the one _poll_queue takes, is that of the request accepted last.
C17_ResultAfterFetches ==
    /\ [][Len(workers') > Len(workers) => (q = <<>> /\ AliveWorkers = {})]_vars
    /\ [](\A id \in AliveWorkers :
            LET w == workers[id] IN
            /\ id = Len(workers)
            /\ w.pc = "fetch_noaa" => (w.noaa = "none" /\ w.owid = "none")
            /\ w.pc = "fetch_owid" => (w.noaa = "ok" /\ w.owid = "none")
            /\ w.pc = "put_ok" => (w.noaa = "ok" /\ w.owid = "ok"))
    /\ [][\A id \in AliveWorkers :
            (Len(q') = Len(q) + 1 /\ workers'[id] # workers[id]
               /\ q'[Len(q')][1] = "ok") =>
               /\ workers[id].noaa = "ok" /\ workers[id].owid = "ok"
               /\ workers[id].owidArgs = <<request.start_year, request.end_year>>
               /\ q'[Len(q')][2] = workers[id].snap
               /\ q'[Len(q')][3] = workers[id].emissions]_vars
    /\ [](q # <<>> =>
            /\ AliveWorkers = {}
            /\ enqueued = Accepted
            /\ Head(q)[1] = "ok" =>
                  /\ Head(q)[4] = request.start_year
                  /\ Head(q)[5] = request.end_year
                  /\ Head(q)[6] = request.budget_label)
    /\ [][Len(q') < Len(q) => (AliveWorkers = {} /\ enqueued = Accepted)]_vars

\* The 'ok' message of the second request waits on the queue.
C17_Witness ==
    /\ q # <<>>
    /\ Head(q)[1] = "ok"
    /\ Accepted = 2
    /\ Head(q)[3] # <<>>

\* C18: at every point between two handlers of the interactive thread the
\* Refresh button is disabled exactly when the flag is set, and the status
\* line reads 'Refreshing...' exactly when the flag is set, from the state
\* __init__ leaves onwards. (While the error dialog is open the tick that
\* opened it has not returned: the button is disabled with the flag set.)
C18_ButtonAndStatusFollowFlag ==
    /\ btn_state = "disabled" <=> refresh_in_flight
    /\ errorbox = <<>> => (status = <<"Refreshing...">> <=> refresh_in_flight)

\* A second refresh is in flight after a first that succeeded.
C18_Witness ==
    /\ refresh_in_flight
    /\ btn_state = "disabled"
    /\ status = <<"Refreshing...">>
    /\ last_snapshot # <<>>
    /\ Accepted = 2

\* C19: the queue never holds more than one message, and when the flag is
\* clear the queue is empty and no worker is alive: a message on the queue
\* or a worker that has not put its message means the flag is set.
C19_QueueAtMostOne ==
    /\ Len(q) <= 1
    /\ ~refresh_in_flight => (q = <<>> /\ AliveWorkers = {})
    /\ (q # <<>> \/ AliveWorkers # {}) => refresh_in_flight

\* Idle after two refreshes, each of which put one message.
C19_Witness ==
    /\ ~refresh_in_flight
    /\ q = <<>>
    /\ AliveWorkers = {}
    /\ Accepted = 2
    /\ enqueued = 2

\* C20: with the worker and the poll timer scheduled fairly, the fetches
\* ending and the error dialog closed by the user, every in-flight state is
\* followed by an idle state with the Refresh button enabled again.
C20_InFlightLeadsToIdle ==
    refresh_in_flight ~> (~refresh_in_flight /\ btn_state = "normal")

\* Idle again, the button enabled, after a second refresh that failed.
C20_Witness ==
    /\ ~refresh_in_flight
    /\ btn_state = "normal"
    /\ status = <<"Error">>
    /\ errorbox = <<>>
    /\ Accepted = 2

====
